---- MODULE Spec2Model ----
(***************************************************************************)
(* A model of the OpenCode allowlist plugin (src/src/index.ts): discovery  *)
(* of the opencode-allowlist.json config files, their merge into the       *)
(* cached list of allowed directories, and the permission.ask hook that    *)
(* auto-allows a request whose path lies under an allowed directory.       *)
(*                                                                         *)
(* Strings are sequences of one-character strings, so that startsWith,     *)
(* path.resolve and path.dirname act on characters as they do in the code. *)
(* Every await of the code (fs.access, fs.readFile, the await of           *)
(* findConfigFiles and of getAllowedDirectories) ends one atomic step of   *)
(* a call; the steps of overlapping calls interleave freely.               *)
(***************************************************************************)
EXTENDS Naturals, Sequences, FiniteSets

VARIABLES
    directory,    \* the plugin's `directory` argument (start of the walk)
    worktree,     \* the plugin's `worktree` argument (boundary of the walk)
    cwd,          \* process.cwd(), which path.resolve prepends to relative paths
    hostCalls,    \* number of invocations the host makes of the hook and the tool
    diskGlobal,   \* content of the two global config files
    diskDir,      \* content of <dir>/.opencode/opencode-allowlist.json per directory
    nChanges,     \* number of out-of-band changes made to the files so far
    cachedDirs,   \* the closure variable cachedDirs (line 32)
    calls,        \* the invocations of permission.ask and of the tool
    firstCache,   \* history: the value cachedDirs was given first
    nWrites       \* history: number of assignments made to cachedDirs

vars == <<directory, worktree, cwd, hostCalls, diskGlobal, diskDir, nChanges,
          cachedDirs, calls, firstCache, nWrites>>

(***************************************************************************)
(* Bounds of the model.                                                    *)
(***************************************************************************)
MaxCalls == 2
MaxCacheCalls == 3
MaxDiskChanges == 1

Calls == 1..MaxCacheCalls

(***************************************************************************)
(* Values.  A JavaScript value that the code meets where it expects a      *)
(* string is a tagged record [tag, s, n, str]: a string s, a number n (-0  *)
(* is the number 0: a Set and || do not tell them apart), NaN, a boolean   *)
(* (n = 1 for true), null, undefined, or an object or array, n standing    *)
(* for its identity.  str tells whether the value converts to a string:    *)
(* every value does but an object whose toString and valueOf yield no      *)
(* primitive, as {"toString": 1}, or an array holding one.  Two values are *)
(* the same to a Set (SameValueZero) exactly when their records are equal. *)
(***************************************************************************)
Str(s) == [tag |-> "string", s |-> s, n |-> 0, str |-> TRUE]
Num(n) == [tag |-> "number", s |-> <<>>, n |-> n, str |-> TRUE]
NaN == [tag |-> "NaN", s |-> <<>>, n |-> 0, str |-> TRUE]
Bool(b) == [tag |-> "boolean", s |-> <<>>, n |-> IF b THEN 1 ELSE 0, str |-> TRUE]
Null == [tag |-> "null", s |-> <<>>, n |-> 0, str |-> TRUE]
Undefined == [tag |-> "undefined", s |-> <<>>, n |-> 0, str |-> TRUE]
Obj(id) == [tag |-> "object", s |-> <<>>, n |-> id, str |-> TRUE]
ObjNoString(id) == [tag |-> "object", s |-> <<>>, n |-> id, str |-> FALSE]

\* `${v}` in a template literal throws a TypeError: v has no primitive form.
TemplateThrows(v) == ~v.str

\* JavaScript truthiness, as used by || and ! on the metadata fields.
Truthy(v) ==
    \/ v.tag = "string" /\ v.s # <<>>
    \/ v.tag = "number" /\ v.n # 0
    \/ v.tag = "boolean" /\ v.n = 1
    \/ v.tag = "object"

Range(f) == {f[i] : i \in DOMAIN f}

\* String.prototype.startsWith
StartsWith(s, prefix) ==
    /\ Len(prefix) <= Len(s)
    /\ \A i \in 1..Len(prefix) : s[i] = prefix[i]

(***************************************************************************)
(* path.resolve and path.dirname of node's posix path module.              *)
(***************************************************************************)
RECURSIVE SplitSegs(_, _, _)
SplitSegs(s, i, cur) ==
    IF i > Len(s) THEN <<cur>>
    ELSE IF s[i] = "/" THEN <<cur>> \o SplitSegs(s, i + 1, <<>>)
    ELSE SplitSegs(s, i + 1, Append(cur, s[i]))

\* normalizeString without allowAboveRoot: "" and "." are dropped, ".." removes
\* the segment before it (and nothing at the root).
RECURSIVE NormSegs(_, _, _)
NormSegs(segs, i, acc) ==
    IF i > Len(segs) THEN acc
    ELSE IF segs[i] = <<>> \/ segs[i] = <<".">> THEN NormSegs(segs, i + 1, acc)
    ELSE IF segs[i] = <<".", ".">>
         THEN NormSegs(segs, i + 1,
                       IF acc = <<>> THEN acc ELSE SubSeq(acc, 1, Len(acc) - 1))
    ELSE NormSegs(segs, i + 1, Append(acc, segs[i]))

RECURSIVE JoinSegs(_, _)
JoinSegs(segs, i) ==
    IF i > Len(segs) THEN <<>>
    ELSE IF i = Len(segs) THEN segs[i]
    ELSE segs[i] \o <<"/">> \o JoinSegs(segs, i + 1)

\* path.resolve(p) of one string, the working directory being absolute.
PathResolveIn(base, p) ==
    LET full == IF Len(p) > 0 /\ p[1] = "/" THEN p
                ELSE IF Len(p) = 0 THEN base
                ELSE base \o <<"/">> \o p
        segs == NormSegs(SplitSegs(full, 1, <<>>), 1, <<>>)
    IN  <<"/">> \o JoinSegs(segs, 1)

PathResolve(p) == PathResolveIn(cwd, p)

\* path.dirname(p)
PathDirname(p) ==
    IF Len(p) = 0 THEN <<".">>
    ELSE LET hasRoot == p[1] = "/"
             ends == {k \in 2..Len(p) :
                        /\ p[k] = "/"
                        /\ \E j \in (k + 1)..Len(p) : p[j] # "/"}
         IN  IF ends = {} THEN (IF hasRoot THEN <<"/">> ELSE <<".">>)
             ELSE LET k == CHOOSE x \in ends : \A y \in ends : y <= x
                  IN  IF hasRoot /\ k = 2 THEN <<"/", "/">>
                      ELSE SubSeq(p, 1, k - 1)

(***************************************************************************)
(* Config files.  What a file is to the code: missing (fs.access fails),   *)
(* unreadable (fs.readFile fails), malformed (JSON.parse fails), or JSON   *)
(* of a shape: null, no truthy allowedDirectories, a truthy                *)
(* allowedDirectories that is no array, or an array of entries.            *)
(***************************************************************************)
Missing == [kind |-> "missing", shape |-> "-", dirs |-> <<>>]
Unreadable == [kind |-> "unreadable", shape |-> "-", dirs |-> <<>>]
Malformed == [kind |-> "malformed", shape |-> "-", dirs |-> <<>>]
JsonNull == [kind |-> "json", shape |-> "null", dirs |-> <<>>]
JsonNoField == [kind |-> "json", shape |-> "nofield", dirs |-> <<>>]
JsonNonSeq == [kind |-> "json", shape |-> "nonseq", dirs |-> <<>>]
JsonArray(ds) == [kind |-> "json", shape |-> "array", dirs |-> ds]

GlobalFile(i) == [kind |-> "global", gi |-> i, dir |-> <<>>]
DirFile(d) == [kind |-> "dir", gi |-> 0, dir |-> d]

\* The content of the file a path names, now.  path.join normalizes the
\* directory and the file system resolves the joined path against cwd.
FileContent(ref) ==
    IF ref.kind = "global" THEN diskGlobal[ref.gi]
    ELSE LET key == PathResolve(ref.dir)
         IN  IF key \in DOMAIN diskDir THEN diskDir[key] ELSE Missing

\* fs.access(path) succeeds
FileExists(ref) == FileContent(ref).kind # "missing"

\* A number for a pair of naturals, no two pairs having the same.
Pair(a, b) == ((a + b) * (a + b + 1)) \div 2 + b

\* JSON.parse(content): every object or array of the text is a new object at
\* each parse.  Entry i of the parse numbered base has the identity
\* Pair(base, i), which no entry of another parse and no other entry has.
ParseJson(content, base) ==
    [content EXCEPT !.dirs =
        [i \in DOMAIN content.dirs |->
            IF content.dirs[i].tag = "object"
            THEN [content.dirs[i] EXCEPT !.n = Pair(base, i)]
            ELSE content.dirs[i]]]

\* The number of the parse that call c makes of its idx-th config file.
ParseBase(c, idx) == Pair(c, idx)

(***************************************************************************)
(* getAllowedDirectories: the merge of the files' allowedDirectories.      *)
(* allDirs is a JavaScript Set, which keeps each value once, in the order  *)
(* of first insertion: a sequence without repetition.                      *)
(***************************************************************************)
\* Set.prototype.add
SetAdd(set, x) == IF x \in Range(set) THEN set ELSE Append(set, x)

\* dirs.forEach((dir) => allDirs.add(dir))
RECURSIVE AddAll(_, _, _)
AddAll(set, dirs, i) ==
    IF i > Len(dirs) THEN set ELSE AddAll(SetAdd(set, dirs[i]), dirs, i + 1)

\* The body of the try block does not reach allDirs.add: readFile, JSON.parse,
\* the property access on null or the forEach of a non-array throws.
LoadThrows(content) ==
    \/ content.kind # "json"
    \/ content.shape = "null"
    \/ content.shape = "nonseq"

\* A variant that gives a later file precedence: its directories replace those
\* of the files read before it.
LoadConfigOverride(allDirs, content) ==
    IF LoadThrows(content) \/ content.shape = "nofield" \/ content.dirs = <<>>
    THEN allDirs
    ELSE AddAll(<<>>, content.dirs, 1)

\* One iteration of the loop over configFiles: allDirs after the file is loaded.
LoadConfig(allDirs, content) ==
    IF LoadThrows(content) THEN allDirs
    ELSE IF content.shape = "nofield" THEN allDirs
    ELSE AddAll(allDirs, content.dirs, 1)

\* A variant whose try block surrounds the loop: a file that throws ends it.
NextIndexAbort(content, idx, n) == IF LoadThrows(content) THEN n + 1 ELSE idx + 1

\* The index of the file read next: the catch is inside the loop, which goes on.
NextIndex(content, idx, n) == idx + 1

\* The whole loop over given parsed contents.
RECURSIVE MergeFrom(_, _, _)
MergeFrom(allDirs, contents, i) ==
    IF i > Len(contents) THEN allDirs
    ELSE MergeFrom(LoadConfig(allDirs, contents[i]), contents,
                   NextIndex(contents[i], i, Len(contents)))

MergeAll(contents) == MergeFrom(<<>>, contents, 1)

\* if (cachedDirs !== null) return cachedDirs
CacheHit(cache) == cache.set

(***************************************************************************)
(* findConfigFiles: the walk from directory up to worktree.                *)
(***************************************************************************)
\* A variant without the check for the file system's root.
WalkStopsNoRoot(currentDir) == currentDir = worktree

\* A variant without the check for the worktree.
WalkStopsNoBoundary(currentDir) == PathDirname(currentDir) = currentDir

\* The two breaks of the loop, after currentDir was probed.
WalkStops(currentDir) ==
    \/ currentDir = worktree
    \/ PathDirname(currentDir) = currentDir

(***************************************************************************)
(* isPathAllowed.  "throw" is path.resolve's TypeError for a value that    *)
(* is no string: the allowed directory is resolved first (line 126), the   *)
(* requested path after it (line 127), in each iteration.                  *)
(***************************************************************************)
RECURSIVE IsPathAllowedFrom(_, _, _)
IsPathAllowedFrom(requestedPath, allowedDirs, i) ==
    IF i > Len(allowedDirs) THEN "false"
    ELSE IF allowedDirs[i].tag # "string" THEN "throw"
    ELSE IF requestedPath.tag # "string" THEN "throw"
    ELSE IF StartsWith(PathResolve(requestedPath.s), PathResolve(allowedDirs[i].s))
         THEN "true"
    ELSE IsPathAllowedFrom(requestedPath, allowedDirs, i + 1)

\* A variant that matches at a path separator only.
RECURSIVE IsPathAllowedSepFrom(_, _, _)
IsPathAllowedSepFrom(requestedPath, allowedDirs, i) ==
    IF i > Len(allowedDirs) THEN "false"
    ELSE IF allowedDirs[i].tag # "string" THEN "throw"
    ELSE IF requestedPath.tag # "string" THEN "throw"
    ELSE LET r == PathResolve(requestedPath.s)
             a == PathResolve(allowedDirs[i].s)
         IN  IF r = a \/ StartsWith(r, IF a = <<"/">> THEN a ELSE a \o <<"/">>)
             THEN "true"
             ELSE IsPathAllowedSepFrom(requestedPath, allowedDirs, i + 1)

IsPathAllowedSep(requestedPath, allowedDirs) ==
    IsPathAllowedSepFrom(requestedPath, allowedDirs, 1)

IsPathAllowed(requestedPath, allowedDirs) ==
    IsPathAllowedFrom(requestedPath, allowedDirs, 1)

(***************************************************************************)
(* permission.ask                                                          *)
(***************************************************************************)
\* A variant that prefers metadata.filepath.
RequestedDirFilepathFirst(input) ==
    IF Truthy(input.filepath) THEN input.filepath ELSE input.parentDir

\* input.metadata?.parentDir || input.metadata?.filepath
RequestedDir(input) ==
    IF Truthy(input.parentDir) THEN input.parentDir ELSE input.filepath

(***************************************************************************)
(* The strings of the model.                                               *)
(***************************************************************************)
sEmpty == <<>>
sRoot == <<"/">>
sA == <<"/", "a">>
sATrail == <<"/", "a", "/">>
sAB == <<"/", "a", "/", "b">>
sAb == <<"/", "a", "b">>
sABC == <<"/", "a", "/", "b", "/", "c">>
sB == <<"/", "b">>
sAUpB == <<"/", "a", "/", ".", ".", "/", "b">>
sRelB == <<"b">>

\* The requests the host may make: [type, parentDir, filepath, status], status
\* being the output's status before the hook runs.
Request(t, p, f) == [type |-> t, parentDir |-> p, filepath |-> f, status |-> "ask"]
NoInput == Request("-", Undefined, Undefined)

Requests ==
    { Request("bash", Str(sAB), Undefined),
      Request("external_directory", Undefined, Undefined),
      Request("external_directory", Null, NaN),
      Request("external_directory", Num(0), Num(123)),
      Request("external_directory", ObjNoString(0), Str(sA)),
      Request("external_directory", Str(sEmpty), Str(sAb)),
      Request("external_directory", Str(sABC), Str(sB)) }

\* The directories whose config file the model keeps; every other directory
\* has none.
DirKeys == {sRoot, sA, sAB}

Arr1 == JsonArray(<<Str(sA)>>)
Arr3 == JsonArray(<<Str(sB), Str(sA), Str(sB)>>)

\* What an out-of-band change may leave in a file.
FileContents == {Missing, JsonArray(<<Str(sB)>>)}

(***************************************************************************)
(* The state of one invocation of permission.ask or of the tool.           *)
(***************************************************************************)
IdleCall ==
    [ kind |-> "none",        \* "ask" or "tool" once invoked
      pc |-> "idle",          \* the await the invocation is suspended at
      input |-> NoInput,
      status |-> "-",         \* output.status
      gi |-> 0,               \* index of the global path being probed
      currentDir |-> <<>>,
      configFiles |-> <<>>,
      idx |-> 0,              \* index in configFiles of the file being read
      allDirs |-> <<>>,
      got |-> FALSE,          \* getAllowedDirectories has returned
      ret |-> <<>>,           \* what it returned
      threw |-> FALSE,        \* the invocation ended by an exception
      hit |-> FALSE,          \* history: cachedDirs was set when it was invoked
      startCache |-> <<>>,    \* history: cachedDirs then
      probed |-> <<>>,        \* history: the directories probed by the walk
      readLog |-> <<>>,       \* history: the content each readFile met
      io |-> 0 ]              \* history: number of fs.access and fs.readFile made

NullCache == [set |-> FALSE, v |-> <<>>]

\* cachedDirs = v
Publish(v) ==
    /\ cachedDirs' = [set |-> TRUE, v |-> v]
    /\ firstCache' = IF cachedDirs.set THEN firstCache ELSE v
    /\ nWrites' = nWrites + 1

NoPublish == UNCHANGED <<cachedDirs, firstCache, nWrites>>

Env == <<directory, worktree, cwd, hostCalls>>
Disk == <<diskGlobal, diskDir, nChanges>>

\* The call enters getAllowedDirectories: it returns the cache, or starts
\* findConfigFiles, which suspends at the access of the first global path.
EnterGet(call) ==
    LET c1 == [call EXCEPT !.hit = cachedDirs.set, !.startCache = cachedDirs.v]
    IN  IF CacheHit(cachedDirs)
        THEN [c1 EXCEPT !.pc = "resume", !.got = TRUE, !.ret = cachedDirs.v]
        ELSE [c1 EXCEPT !.pc = "global", !.gi = 1]

\* Calls are invoked in the order of their numbers.
MayStart(c) ==
    /\ c <= hostCalls
    /\ calls[c].pc = "idle"
    /\ \A d \in Calls : d < c => calls[d].pc # "idle"

\* permission.ask(input, output) up to its first await.
AskStart(c) ==
    /\ MayStart(c)
    /\ \E input \in Requests :
         LET call == [calls[c] EXCEPT !.kind = "ask", !.input = input,
                                      !.status = input.status]
         IN  calls' = [calls EXCEPT ![c] =
                 IF input.type # "external_directory"
                 THEN [call EXCEPT !.pc = "done"]
                 ELSE IF ~Truthy(RequestedDir(input))
                 THEN [call EXCEPT !.pc = "done"]
                 ELSE EnterGet(call)]
    /\ NoPublish
    /\ UNCHANGED <<Env, Disk>>

\* The tool's execute() up to its first await.
ToolStart(c) ==
    /\ MayStart(c)
    /\ calls' = [calls EXCEPT ![c] = EnterGet([calls[c] EXCEPT !.kind = "tool"])]
    /\ NoPublish
    /\ UNCHANGED <<Env, Disk>>

\* fs.access of a global path completes.
AccessGlobal(c) ==
    LET call == calls[c]
        ref == GlobalFile(call.gi)
        found == IF FileExists(ref) THEN Append(call.configFiles, ref)
                 ELSE call.configFiles
    IN  /\ call.pc = "global"
        /\ calls' = [calls EXCEPT ![c] =
              IF call.gi < 2
              THEN [call EXCEPT !.configFiles = found, !.io = @ + 1, !.gi = @ + 1]
              ELSE [call EXCEPT !.configFiles = found, !.io = @ + 1,
                                !.pc = "walk", !.currentDir = directory]]
        /\ NoPublish
        /\ UNCHANGED <<Env, Disk>>

\* fs.access of currentDir's config file completes; the loop breaks or goes up.
WalkStep(c) ==
    LET call == calls[c]
        ref == DirFile(call.currentDir)
        found == IF FileExists(ref) THEN Append(call.configFiles, ref)
                 ELSE call.configFiles
        seen == [call EXCEPT !.configFiles = found, !.io = @ + 1,
                             !.probed = Append(@, call.currentDir)]
    IN  /\ call.pc = "walk"
        /\ calls' = [calls EXCEPT ![c] =
              IF WalkStops(call.currentDir)
              THEN [seen EXCEPT !.pc = "found"]
              ELSE [seen EXCEPT !.currentDir = PathDirname(call.currentDir)]]
        /\ NoPublish
        /\ UNCHANGED <<Env, Disk>>

\* await findConfigFiles() resumes: no file, or the first readFile is issued.
FilesFound(c) ==
    LET call == calls[c]
    IN  /\ call.pc = "found"
        /\ IF Len(call.configFiles) = 0
           THEN /\ Publish(<<>>)
                /\ calls' = [calls EXCEPT ![c] =
                      [call EXCEPT !.pc = "resume", !.got = TRUE, !.ret = <<>>]]
           ELSE /\ NoPublish
                /\ calls' = [calls EXCEPT ![c] =
                      [call EXCEPT !.pc = "read", !.idx = 1, !.allDirs = <<>>]]
        /\ UNCHANGED <<Env, Disk>>

\* fs.readFile of configFiles[idx] completes or throws; after the last file
\* the merged directories are assigned to cachedDirs and returned.
ReadStep(c) ==
    LET call == calls[c]
        content == ParseJson(FileContent(call.configFiles[call.idx]),
                             ParseBase(c, call.idx))
        merged == LoadConfig(call.allDirs, content)
        next == NextIndex(content, call.idx, Len(call.configFiles))
        read == [call EXCEPT !.allDirs = merged, !.io = @ + 1, !.idx = next,
                             !.readLog = Append(@, content)]
    IN  /\ call.pc = "read"
        /\ IF next <= Len(call.configFiles)
           THEN /\ NoPublish
                /\ calls' = [calls EXCEPT ![c] = read]
           ELSE /\ Publish(merged)
                /\ calls' = [calls EXCEPT ![c] =
                      [read EXCEPT !.pc = "resume", !.got = TRUE, !.ret = merged]]
        /\ UNCHANGED <<Env, Disk>>

\* The tool's text: no line when dirs is empty, else `${i + 1}. ${dir}` of
\* every entry, which throws at an entry that has no primitive form.
ListingThrows(dirs) == \E i \in DOMAIN dirs : TemplateThrows(dirs[i])

\* await getAllowedDirectories() resumes in permission.ask or in the tool.
\* The hook logs `${requestedDir}` before it sets the status or returns.
Resume(c) ==
    LET call == calls[c]
        requestedDir == RequestedDir(call.input)
        allowed == IsPathAllowed(requestedDir, call.ret)
    IN  /\ call.pc = "resume"
        /\ calls' = [calls EXCEPT ![c] =
              IF call.kind = "tool"
              THEN [call EXCEPT !.pc = "done", !.threw = ListingThrows(call.ret)]
              ELSE IF allowed = "throw" \/ TemplateThrows(requestedDir)
              THEN [call EXCEPT !.pc = "done", !.threw = TRUE]
              ELSE IF allowed = "true"
              THEN [call EXCEPT !.pc = "done", !.status = "allow"]
              ELSE [call EXCEPT !.pc = "done"]]
        /\ NoPublish
        /\ UNCHANGED <<Env, Disk>>

\* Someone edits, creates or removes a config file.
ChangeGlobalFile ==
    /\ nChanges < MaxDiskChanges
    /\ \E i \in DOMAIN diskGlobal, content \in FileContents :
         /\ content # diskGlobal[i]
         /\ diskGlobal' = [diskGlobal EXCEPT ![i] = content]
    /\ nChanges' = nChanges + 1
    /\ NoPublish
    /\ UNCHANGED <<Env, diskDir, calls>>

ChangeDirFile ==
    /\ nChanges < MaxDiskChanges
    /\ \E d \in DOMAIN diskDir, content \in FileContents :
         /\ content # diskDir[d]
         /\ diskDir' = [diskDir EXCEPT ![d] = content]
    /\ nChanges' = nChanges + 1
    /\ NoPublish
    /\ UNCHANGED <<Env, diskGlobal, calls>>

(***************************************************************************)
(* The initial states: the plugin was constructed with some directory and  *)
(* worktree, over some files.                                              *)
(***************************************************************************)
Directories == {sAB, sA, sB, sAUpB, sRelB, sEmpty}
Worktrees == {sA, sRoot, sB, sATrail}

\* Any directory and worktree, over a config file in /a.
InitWalk ==
    /\ hostCalls = MaxCalls
    /\ directory \in Directories
    /\ worktree \in Worktrees
    /\ diskGlobal = [i \in 1..2 |-> Missing]
    /\ diskDir = [d \in DirKeys |->
                    IF d = sA THEN JsonArray(<<Str(sA), Obj(0)>>) ELSE Missing]

\* The files the plugin may start over: the first global file, the file of
\* /a/b and the file of /a.
FileSets ==
    { <<Missing, Missing, Missing>>,
      <<Missing, Missing, JsonNoField>>,
      <<Missing, Arr1, JsonNonSeq>>,
      <<Missing, JsonArray(<<Str(sA), ObjNoString(0)>>), JsonArray(<<Obj(0)>>)>>,
      <<Missing, Unreadable, JsonArray(<<Num(1), Str(sA), Num(2), Num(1)>>)>>,
      <<Missing, Malformed, JsonArray(<<Str(sATrail), Str(sRelB)>>)>>,
      <<Arr3, Arr1, JsonNull>>,
      <<Arr3, Malformed, JsonArray(<<Str(sATrail), Str(sRelB)>>)>>,
      <<Arr3, JsonArray(<<>>), Arr1>> }

\* The directory /a/b in the worktree /a, over these files.
InitFiles ==
    /\ hostCalls = MaxCalls
    /\ directory = sAB
    /\ worktree = sA
    /\ \E fs \in FileSets :
         /\ diskGlobal = [i \in 1..2 |-> IF i = 1 THEN fs[1] ELSE Missing]
         /\ diskDir = [d \in DirKeys |->
                         IF d = sAB THEN fs[2] ELSE IF d = sA THEN fs[3]
                         ELSE Missing]

InitRest ==
    /\ cwd = sA
    /\ nChanges = 0
    /\ cachedDirs = NullCache
    /\ calls = [c \in Calls |-> IdleCall]
    /\ firstCache = <<>>
    /\ nWrites = 0

Next ==
    \/ \E c \in Calls : AskStart(c)
    \/ \E c \in Calls : ToolStart(c)
    \/ \E c \in Calls : AccessGlobal(c)
    \/ \E c \in Calls : WalkStep(c)
    \/ \E c \in Calls : FilesFound(c)
    \/ \E c \in Calls : ReadStep(c)
    \/ \E c \in Calls : Resume(c)
    \/ ChangeGlobalFile
    \/ ChangeDirFile

\* The plugin in the usual place, over any files.
Init == InitFiles /\ InitRest

Spec == Init /\ [][Next]_vars

\* The plugin constructed with any directory and worktree.
InitAnywhere == InitWalk /\ InitRest

SpecWalk == InitAnywhere /\ [][Next]_vars

\* The plugin in the usual place with no config file yet, under more
\* invocations: two may load while a third meets the cache.
InitCache ==
    /\ hostCalls = MaxCacheCalls
    /\ directory = sAB
    /\ worktree = sA
    /\ diskGlobal = [i \in 1..2 |-> Missing]
    /\ diskDir = [d \in DirKeys |-> Missing]

InitMany == InitCache /\ InitRest

SpecCache == InitMany /\ [][Next]_vars

(***************************************************************************)
(* Properties.                                                             *)
(***************************************************************************)
AllStrings(dirs) == \A i \in DOMAIN dirs : dirs[i].tag = "string"

NoRepetition(seq) == \A i, j \in DOMAIN seq : seq[i] = seq[j] => i = j

Reverse(seq) == [i \in 1..Len(seq) |-> seq[Len(seq) + 1 - i]]

\* The paths isPathAllowed is asked about.
TestPaths == {sEmpty, sRoot, sA, sATrail, sAB, sAb, sABC, sB, sAUpB, sRelB}

\* The lists of directories the program has returned or cached.
DirLists == {calls[c].ret : c \in Calls} \cup {cachedDirs.v}

\* C1: isPathAllowed(P, D) is true if and only if the resolved P starts with
\* the resolved form of some d in D, as strings, and false otherwise; so it is
\* false for an empty D.
C1_PrefixMatch ==
    \A D \in DirLists : AllStrings(D) =>
        \A P \in TestPaths :
            IsPathAllowed(Str(P), D) =
                IF \E i \in DOMAIN D :
                       StartsWith(PathResolve(P), PathResolve(D[i].s))
                THEN "true" ELSE "false"

\* A request for /ab was allowed because /a is an allowed directory.
C1_Witness ==
    \E c \in Calls :
        /\ calls[c].pc = "done"
        /\ calls[c].status = "allow"
        /\ calls[c].input.filepath = Str(sAb)
        /\ \A i \in DOMAIN calls[c].ret : calls[c].ret[i] = Str(sA)

\* A metadata field that is not there: undefined, or a value that JavaScript
\* takes for false.
C2_Absent(v) == v \in {Undefined, Null, NaN, Str(<<>>), Num(0), Bool(FALSE)}

\* The target path of a request, in the claim's words: parentDir, else filepath.
C2_Target(input) ==
    IF ~C2_Absent(input.parentDir) THEN input.parentDir ELSE input.filepath

\* isPathAllowed returns true: the path is a string, some directory matches
\* and the loop reaches it.
C2_Matches(path, dirs) ==
    /\ path.tag = "string"
    /\ \E i \in DOMAIN dirs :
          /\ \A j \in 1..i : dirs[j].tag = "string"
          /\ StartsWith(PathResolve(path.s), PathResolve(dirs[i].s))

\* C2: after permission.ask the output's status is "allow" exactly when the
\* request is of type external_directory, has a target path and the path is
\* allowed by the merged list; otherwise the output is as it was before, and
\* the hook writes no status but "allow".
C2_HookOutput ==
    \A c \in Calls : calls[c].kind = "ask" =>
        LET call == calls[c]
            target == C2_Target(call.input)
            authorized == /\ call.input.type = "external_directory"
                          /\ ~C2_Absent(target)
                          /\ call.got
                          /\ C2_Matches(target, call.ret)
        IN  /\ call.status \in {call.input.status, "allow"}
            /\ call.pc # "done" => call.status = call.input.status
            /\ call.pc = "done" =>
                 call.status = IF authorized THEN "allow" ELSE call.input.status

\* A request was allowed for its parentDir /a/b/c although its filepath /b is
\* not under an allowed directory.
C2_Witness ==
    \E c \in Calls :
        /\ calls[c].pc = "done"
        /\ calls[c].status = "allow"
        /\ calls[c].input.parentDir = Str(sABC)
        /\ ~C2_Matches(Str(sB), calls[c].ret)

\* A file that cannot be read or is not JSON.
C3_Bad(content) == content.kind \in {"missing", "unreadable", "malformed"}

C3_Entries(log) ==
    UNION {Range(log[i].dirs) : i \in {j \in DOMAIN log : ~C3_Bad(log[j])}}

\* C3: a discovered file that cannot be read or parsed contributes nothing,
\* and every other discovered file is still read and all its entries are in
\* the merged result, wherever the bad file is in the sequence.
C3_BadFileSkipped ==
    \A c \in Calls :
        LET call == calls[c]
        IN  /\ call.pc = "read" =>
                 /\ call.idx = Len(call.readLog) + 1
                 /\ Range(call.allDirs) = C3_Entries(call.readLog)
            /\ (call.got /\ call.configFiles # <<>>) =>
                 /\ Len(call.readLog) = Len(call.configFiles)
                 /\ Range(call.ret) = C3_Entries(call.readLog)

\* A load whose first file was bad and whose last file's entries were merged.
C3_Witness ==
    \E c \in Calls :
        LET log == calls[c].readLog
        IN  /\ calls[c].got
            /\ Len(log) >= 2
            /\ C3_Bad(log[1])
            /\ log[Len(log)].dirs # <<>>
            /\ Range(log[Len(log)].dirs) \subseteq Range(calls[c].ret)

\* C4: permission.ask completes normally whatever the config files hold: a
\* request whose target path is a string never ends by an exception.
C4_HookNeverThrows ==
    \A c \in Calls :
        (calls[c].kind = "ask" /\ RequestedDir(calls[c].input).tag = "string")
            => ~calls[c].threw

\* The entries of a list as the files spell them: an object without the
\* identity its parse gave it.
Spelled(dirs) ==
    {IF dirs[i].tag = "object" THEN [dirs[i] EXCEPT !.n = 0] ELSE dirs[i] :
        i \in DOMAIN dirs}

\* C5: a call made once the cache is populated returns the cached value and
\* makes no file-existence check and no file read, so that what it returns is
\* what the cache was populated with, whatever the files have become.
C5_CachedCallUnaffected ==
    \A c \in Calls : calls[c].hit =>
        /\ calls[c].got
        /\ calls[c].ret = calls[c].startCache
        /\ calls[c].io = 0
        /\ calls[c].probed = <<>>
        /\ calls[c].readLog = <<>>
        /\ Spelled(calls[c].ret) = Spelled(firstCache)

\* C6: once cachedDirs is set, its contents are those it was first given.
C6_CacheImmutable ==
    cachedDirs.set => Spelled(cachedDirs.v) = Spelled(firstCache)

\* The calls that loaded the files themselves.
Loaders == {c \in Calls : calls[c].got /\ ~calls[c].hit}

\* C10: cachedDirs is assigned once, by the first caller to complete the load,
\* and all overlapping callers return the same set.
C10_CacheWrittenOnce ==
    /\ nWrites <= 1
    /\ \A c, d \in Loaders : Spelled(calls[c].ret) = Spelled(calls[d].ret)

\* The directory strings of a merged list.
StringsOf(dirs) == {x \in Range(dirs) : x.tag = "string"}

\* The same files parsed once more.
ParsedAgain(log) == [i \in DOMAIN log |-> ParseJson(log[i], Pair(0, i))]

\* C9: the merged result holds each directory once, the same files loaded in
\* the opposite order give the same set, and the same files loaded twice give
\* the same set of directory strings.
C9_MergeCommutes ==
    /\ \A c \in Calls : calls[c].got =>
         LET log == calls[c].readLog
         IN  /\ NoRepetition(calls[c].ret)
             /\ calls[c].hit \/ Range(calls[c].ret) = Range(MergeAll(log))
             /\ Range(MergeAll(Reverse(log))) = Range(MergeAll(log))
             /\ StringsOf(MergeAll(log \o ParsedAgain(log))) = StringsOf(MergeAll(log))

\* A load of two files that share a directory, one of them naming a directory
\* twice, whose result holds two directories.
C9_Witness ==
    \E c \in Calls :
        LET log == calls[c].readLog
        IN  /\ calls[c].got
            /\ Len(log) >= 2
            /\ log[1].dirs = <<Str(sB), Str(sA), Str(sB)>>
            /\ log[2].dirs = <<Str(sA)>>
            /\ calls[c].ret = <<Str(sB), Str(sA)>>

\* The segments of a path's resolved form.
ResolvedSegs(p) == NormSegs(SplitSegs(PathResolve(p), 1, <<>>), 1, <<>>)

IsAncestorOrSelf(x, y) ==
    LET sx == ResolvedSegs(x)
        sy == ResolvedSegs(y)
    IN  Len(sx) <= Len(sy) /\ SubSeq(sy, 1, Len(sx)) = sx

IsProperAncestor(x, y) == IsAncestorOrSelf(x, y) /\ ResolvedSegs(x) # ResolvedSegs(y)

\* The directories a call probed or returned a config file of.
WalkDirs(c) ==
    Range(calls[c].probed)
        \cup {calls[c].configFiles[i].dir :
                i \in {j \in DOMAIN calls[c].configFiles :
                         calls[c].configFiles[j].kind = "dir"}}

\* C7, as stated: whatever the directory and the worktree, no proper ancestor
\* of the worktree is probed or returned.
C7_NeverAboveBoundary ==
    \A c \in Calls : \A d \in WalkDirs(c) : ~IsProperAncestor(d, worktree)

\* C7, amended: when directory and worktree are normalized absolute paths and
\* the worktree is the directory or an ancestor of it, no proper ancestor of
\* the worktree is probed or returned; and a walk that ended without probing
\* a directory equal to the worktree ended at a directory that is its own
\* path.dirname: "/" from an absolute directory, else "." or "/".
C7_NeverAboveReachedBoundary ==
    /\ ( /\ directory = PathResolve(directory)
         /\ worktree = PathResolve(worktree)
         /\ IsAncestorOrSelf(worktree, directory) )
       => \A c \in Calls : \A d \in WalkDirs(c) : ~IsProperAncestor(d, worktree)
    /\ \A c \in Calls :
         LET probed == calls[c].probed
         IN  ( /\ calls[c].pc \in {"found", "read", "resume", "done"}
               /\ probed # <<>>
               /\ worktree \notin Range(probed) )
             => /\ probed[Len(probed)] \in {sRoot, <<".">>}
                /\ StartsWith(directory, sRoot) => probed[Len(probed)] = sRoot

\* A walk from /a/b that ended at the worktree /a.
C7_Witness ==
    \E c \in Calls :
        /\ directory = sAB /\ worktree = sA
        /\ calls[c].pc \in {"found", "read", "resume", "done"}
        /\ calls[c].probed = <<sAB, sA>>

\* C8: the walk ends: it probes at most Len(directory) + 2 directories, and it
\* does not go on from a directory that is its own parent.
C8_WalkTerminates ==
    \A c \in Calls :
        LET probed == calls[c].probed
        IN  /\ Len(probed) <= Len(directory) + 2
            /\ \A i \in DOMAIN probed :
                 (i < Len(probed) \/ calls[c].pc = "walk")
                     => PathDirname(probed[i]) # probed[i]

\* A walk that never met the worktree and ended at a directory that is its
\* own parent.
C8_Witness ==
    \E c \in Calls :
        LET probed == calls[c].probed
        IN  /\ calls[c].pc \in {"found", "read", "resume", "done"}
            /\ probed # <<>>
            /\ worktree \notin Range(probed)
            /\ PathDirname(probed[Len(probed)]) = probed[Len(probed)]

====
